---- MODULE Spec2Model ----
(***************************************************************************)
(* State-machine model of GrokImageEditPlugin (src/main.py): the group     *)
(* access gate with its per-group rate limit (_check_group_access), the    *)
(* edit command (cmd_edit_image) and the asynchronous edit body            *)
(* (_async_edit_image), followed by the stages an edit is made of: the     *)
(* upstream call with its retries (_call_grok_api), the response parser    *)
(* (_extract_image_results), the delivery of the results with its cap,     *)
(* timeout and cleanup, and the resolver of quoted messages                *)
(* (_extract_images_from_message).                                         *)
(*                                                                         *)
(* Scheduling is asyncio's: a coroutine runs without interruption from one  *)
(* suspension point (await of I/O, lock acquisition, generator yield) to    *)
(* the next, so one action is one such uninterrupted stretch of code.       *)
(***************************************************************************)
EXTENDS Integers, Sequences, FiniteSets, TLC

\* ------------------------------------------------------------------ bounds
MaxReqTask == 3      \* commands issued in the task specification
MaxReqGate == 3      \* commands issued in the gate specification
MaxReqWindow == 4    \* commands issued in the window specification
MaxReqAccess == 2    \* commands issued in the access-list specification
MaxReqOrder == 2     \* commands issued in the order specification
MaxClock == 3        \* time.time() ranges over 0..MaxClock
MaxWindow == 2       \* rate_limit_window_seconds ranges over 1..MaxWindow
MaxCalls == 2        \* rate_limit_max_calls ranges over 1..MaxCalls
MaxRetry == 3        \* max_retry_attempts ranges over 0..MaxRetry
MaxUrls == 2         \* remote URLs returned by one edit: 0..MaxUrls
MaxPaths == 2        \* local files returned by one edit: 0..MaxPaths
MaxImages == 3       \* max_images_per_response ranges over 0..MaxImages
MaxItems == 2        \* items of a response's data list: 0..MaxItems
MaxTokens == 2       \* image references in a message text: 0..MaxTokens
MaxParts == 2        \* parts of a structured message content: 0..MaxParts
MaxReplies == 3      \* quoted messages referenced by one command: 0..MaxReplies

\* ------------------------------------------------------------------ inputs
Users == {"u1", "u2"}
Groups == {"g1", "g2"}
NoGroup == "none"                  \* get_group_id() returned None or ""
MsgKinds == {"none", "media"}      \* without / with an Image or Reply component
ControlModes == {"off", "whitelist", "blacklist"}
StatusModes == {"minimal", "silent"}

VARIABLES
    \* configuration read in __init__ (limits_are_numbers: the configured
    \* rate_limit_window_seconds is a number; when it is not, the comparison
    \* of line 129 raises TypeError)
    group_control_mode, group_list, rate_limit_enabled,
    rate_limit_window_seconds, rate_limit_max_calls, limits_are_numbers,
    status_message_mode,
    api_key,             \* TRUE when a non-empty key is configured
    max_retry_attempts,
    max_images_per_response,
    save_image_enabled,
    \* plugin state
    rate_limit_bucket,   \* group -> [window_start, count]
    rate_limit_locks,    \* lock key -> holder (request number, 0 = unlocked)
    processing_tasks,    \* user -> task id
    now,                 \* time.time()
    \* one entry per command issued so far
    pc, user, group, msg,
    gateResult, gateTime, gateFault,
    \* what the edits have done so far
    api_calls,           \* the commands whose edit called _call_grok_api
    materialized,        \* the commands whose edit wrote local files
    \* one call of _call_grok_api
    api_pc,              \* "idle", "post", "sleep" or "returned"
    attempt,             \* the loop variable of line 407
    responses,           \* what the upstream answered to each POST so far
    api_result,          \* the returned (image_urls, data_urls, error)
    \* the delivery of one edit's results (_async_edit_image, lines 750-782)
    image_urls,          \* the remote URLs of the edit core's result
    image_paths,         \* the local files of the edit core's result
    components,          \* the message being built; the count of lines
                         \* 751-763 is its length
    path_index,          \* position of the loops of lines 759 and 781
    deliver_pc,          \* "idle", "paths", "sending", "cleanup", "done", "caught"
    transfer,            \* the coroutine event.send(...) awaited at line 768
    timed_out,           \* the handler of line 771 has run
    storage,             \* the files present in the image directory
    unlink_failed,       \* the files whose removal failed (warning of line 684)
    \* one call of _extract_image_results
    response_data,       \* the decoded body of the upstream's answer
    parse_result,        \* the returned (image_urls, data_urls, error)
    \* one call of _extract_images_from_message
    direct_images,       \* the message or a quoted chain carries an image
    reply_ids,           \* the ids of the quoted messages, in message order
    reply_index,         \* position of the loop of line 185
    fetch_log,           \* the references queried so far and what they gave
    last_error,
    resolver_pc,         \* "idle", "fetching" or "returned"
    resolve_result,      \* the returned (images, error)
    \* one call of _onebot_image_data_to_data_url
    segment_data,        \* the data of an image segment of a quoted message
    convert_result       \* the returned (data_url, error)

config == <<group_control_mode, group_list, rate_limit_enabled,
            rate_limit_window_seconds, rate_limit_max_calls,
            limits_are_numbers, status_message_mode, api_key,
            max_retry_attempts, max_images_per_response, save_image_enabled>>
reqVars == <<pc, user, group, msg, gateResult, gateTime, gateFault>>
apiVars == <<api_pc, attempt, responses, api_result>>
deliverVars == <<image_urls, image_paths, components, path_index,
                 deliver_pc, transfer, timed_out, storage, unlink_failed>>
parserVars == <<response_data, parse_result>>
segmentVars == <<segment_data, convert_result>>
resolverVars == <<direct_images, reply_ids, reply_index, fetch_log, last_error,
                  resolver_pc, resolve_result, segmentVars>>
stageVars == <<apiVars, deliverVars, parserVars, resolverVars>>
coreVars == <<api_calls, materialized>>
pluginVars == <<rate_limit_bucket, rate_limit_locks, processing_tasks, now,
                reqVars, coreVars>>
vars == <<config, pluginVars, stageVars>>

Requests == 1..Len(pc)

\* Python dicts: a function whose domain is the set of keys present.
EmptyMap == [k \in {} |-> 0]
Put(d, k, v) == [x \in (DOMAIN d) \cup {k} |-> IF x = k THEN v ELSE d[x]]
Remove(d, k) == [x \in (DOMAIN d) \ {k} |-> d[x]]

\* ------------------------------------------------------- denial reasons
NoDenial == [kind |-> "none", max_calls |-> 0, window_seconds |-> 0]
Pending == [kind |-> "pending", max_calls |-> 0, window_seconds |-> 0]
NeedsLock == [kind |-> "lock", max_calls |-> 0, window_seconds |-> 0]
NotAuthorized == [kind |-> "not_authorized", max_calls |-> 0, window_seconds |-> 0]
Restricted == [kind |-> "restricted", max_calls |-> 0, window_seconds |-> 0]
RateLimited == [kind |-> "rate_limited", max_calls |-> rate_limit_max_calls,
                window_seconds |-> rate_limit_window_seconds]

\* __init__: empty bucket, lock and task maps; the configuration is an input.
InitPlugin(modes, lists, enabled, windows, maxes, numeric, smodes) ==
    /\ group_control_mode \in modes
    /\ group_list \in lists
    /\ rate_limit_enabled \in enabled
    /\ rate_limit_window_seconds \in windows
    /\ rate_limit_max_calls \in maxes
    /\ limits_are_numbers \in numeric
    /\ status_message_mode \in smodes
    /\ rate_limit_bucket = EmptyMap
    /\ rate_limit_locks = EmptyMap
    /\ processing_tasks = EmptyMap
    /\ now = 0
    /\ pc = << >>
    /\ user = << >>
    /\ group = << >>
    /\ msg = << >>
    /\ gateResult = << >>
    /\ gateTime = << >>
    /\ gateFault = << >>
    /\ api_calls = {}
    /\ materialized = {}

\* No upstream call has been made.
ApiIdle ==
    /\ api_pc = "idle"
    /\ attempt = 0
    /\ responses = << >>
    /\ api_result = [images |-> FALSE, error |-> "pending"]

\* lines 748-751: the edit core returned urls and paths (the files of paths
\* were written by _save_base64_image); nothing is built or sent yet.
DeliverIdle(urls, paths) ==
    /\ image_urls = urls
    /\ image_paths = paths
    /\ components = << >>
    /\ path_index = 1
    /\ deliver_pc = "idle"
    /\ transfer = "none"
    /\ timed_out = FALSE
    /\ storage = {paths[i] : i \in 1..Len(paths)}
    /\ unlink_failed = {}

\* A URL string: whether it is a str at all (None is not), starts with http://
\* or https://, ends with an image extension, and has at least 10 characters
\* none of which is one of < > " ' or a line break or tab.
NoUrl == [id |-> "None", str |-> FALSE, http |-> FALSE, ext |-> FALSE, clean |-> FALSE]
UrlA == [id |-> "https://x/a.png", str |-> TRUE, http |-> TRUE, ext |-> TRUE, clean |-> TRUE]
UrlB == [id |-> "https://x/image/b", str |-> TRUE, http |-> TRUE, ext |-> FALSE, clean |-> TRUE]
UrlBad == [id |-> "ftp://x/c.png", str |-> TRUE, http |-> FALSE, ext |-> TRUE, clean |-> TRUE]

\* A response without data list and without choices.
EmptyResponse ==
    [is_dict |-> TRUE, data_is_list |-> FALSE, data |-> << >>, choice |-> "absent",
     message |-> "missing", content |-> "none", text |-> << >>, parts |-> << >>,
     attachments |-> << >>]

\* The parser has not been called.
ParserIdle(response) ==
    /\ response_data = response
    /\ parse_result = [image_urls |-> << >>, data_urls |-> << >>, error |-> "pending"]

\* Images, as the resolver returns them: none, those of the message itself,
\* those of the quoted message ref.
NoImages == [src |-> "none", ref |-> 0]
DirectImages == [src |-> "direct", ref |-> 0]
ReplyImages(reply_id) == [src |-> "reply", ref |-> reply_id]

\* An image segment that carries nothing.
EmptySegment == [base64 |-> "absent", url |-> "absent", file |-> "absent",
                 path |-> "absent"]

\* The segment has not been converted.
SegmentIdle(data) ==
    /\ segment_data = data
    /\ convert_result = [data_url |-> "None", error |-> "pending"]

\* lines 150-151, 184: the resolver has not been called on the message.
ResolverLoopIdle(direct, ids) ==
    /\ direct_images = direct
    /\ reply_ids = ids
    /\ reply_index = 1
    /\ fetch_log = << >>
    /\ last_error = "None"
    /\ resolver_pc = "idle"
    /\ resolve_result = [images |-> NoImages, error |-> "pending"]

\* Neither the resolver nor the conversion of a segment has been called.
ResolverIdle(direct, ids) ==
    /\ ResolverLoopIdle(direct, ids)
    /\ SegmentIdle(EmptySegment)

\* No stage of an edit has started.
StagesIdle ==
    /\ ApiIdle
    /\ DeliverIdle(<< >>, << >>)
    /\ ParserIdle(EmptyResponse)
    /\ ResolverIdle(FALSE, << >>)

\* __init__ of a plugin whose commands are observed up to the start of their
\* edits: a key is configured, the other settings have their defaults (lines
\* 56, 74, 75).
InitState(modes, lists, enabled, windows, maxes, numeric, smodes) ==
    /\ InitPlugin(modes, lists, enabled, windows, maxes, numeric, smodes)
    /\ api_key = TRUE
    /\ max_retry_attempts = 3
    /\ max_images_per_response = 4
    /\ save_image_enabled = FALSE
    /\ StagesIdle

\* ------------------------------------------------- _check_group_access
\* lines 107-111: a raising get_group_id() leaves group_id = None.
GroupId(g, raises) == IF raises THEN NoGroup ELSE g

\* The two list tests exchanged: the whitelist denies the listed groups and the
\* blacklist the unlisted ones.
AccessListSwapped(gid) ==
    IF group_control_mode = "whitelist" /\ gid \in group_list THEN NotAuthorized
    ELSE IF group_control_mode = "blacklist" /\ gid \notin group_list THEN Restricted
    ELSE NoDenial

\* lines 114-117: whitelist / blacklist.
AccessListCheck(gid) ==
    IF group_control_mode = "whitelist" /\ gid \notin group_list THEN NotAuthorized
    ELSE IF group_control_mode = "blacklist" /\ gid \in group_list THEN Restricted
    ELSE NoDenial

\* The list tests and the rate limit applied to a request without a scope too.
GatePrefixUnscopedChecked(gid) ==
    IF AccessListCheck(gid) # NoDenial THEN AccessListCheck(gid)
    ELSE IF rate_limit_enabled THEN NeedsLock
    ELSE NoDenial

\* lines 113-119: what the gate decides before it needs the group's lock.
GatePrefix(gid) ==
    IF gid = NoGroup THEN NoDenial
    ELSE IF AccessListCheck(gid) # NoDenial THEN AccessListCheck(gid)
    ELSE IF rate_limit_enabled THEN NeedsLock
    ELSE NoDenial

\* One lock shared by all groups.
LockKeyShared(gid) == "shared"

\* lines 120-123: one lock per group id.
LockKey(gid) == gid

\* A lock that never excludes anybody.
LockNeverHeld(key) == TRUE

\* line 123: the lock can be taken when no coroutine holds it.
LockFree(key) == rate_limit_locks[key] = 0

\* The stored bucket is never read back.
BucketAlwaysFresh(gid) == [window_start |-> now, count |-> 0]

\* line 125: the stored bucket, or a fresh one starting now.
BucketOf(gid) ==
    IF gid \in DOMAIN rate_limit_bucket THEN rate_limit_bucket[gid]
    ELSE [window_start |-> now, count |-> 0]

\* The window test with > for >=.
WindowElapsedStrict(window_start) == now - window_start > rate_limit_window_seconds

\* line 129
WindowElapsed(window_start) == now - window_start >= rate_limit_window_seconds

\* lines 126-131: window_start and count after the window test.
EffectiveWindow(bucket) ==
    IF WindowElapsed(bucket.window_start) THEN [window_start |-> now, count |-> 0]
    ELSE bucket

\* The limit test with > for >=.
LimitReachedOffByOne(count) == count > rate_limit_max_calls

\* line 133
LimitReached(count) == count >= rate_limit_max_calls

\* An allowed check is not counted.
CountNotIncremented(count) == count

\* line 139
NewCount(count) == count + 1

\* A catch-all that reports the failure as a denial.
GateExceptDenies == [kind |-> "internal_error", max_calls |-> 0, window_seconds |-> 0]

\* lines 142-144: the catch-all of the gate returns None.
GateExceptResult == NoDenial

\* ------------------------------------------------------- cmd_edit_image
\* A denial of the gate is reported but the command goes on.
PostGateIgnoresDenial(result, u, m) ==
    IF u \in DOMAIN processing_tasks THEN "done_busy"
    ELSE IF m = "none" THEN "done_noimage"
    ELSE "resolve"

\* lines 797-812, from the gate's return to the first suspension: the denial
\* is yielded, or the busy check runs, and a message without image or reply
\* component is resolved without awaiting anything.
PostGatePc(result, u, m) ==
    IF result # NoDenial THEN "done_denied"
    ELSE IF u \in DOMAIN processing_tasks THEN "done_busy"
    ELSE IF m = "none" THEN "done_noimage"
    ELSE "resolve"

\* cmd_edit_image is dispatched: line 796 and _check_group_access up to its
\* only suspension point, the lock acquisition of line 123.
CmdStart(u, g, raises, m, maxReq) ==
    LET gid == GroupId(g, raises)
        pre == GatePrefix(gid)
    IN
    /\ Len(pc) < maxReq
    /\ user' = Append(user, u)
    /\ group' = Append(group, gid)
    /\ msg' = Append(msg, m)
    /\ gateTime' = Append(gateTime, -1)
    /\ gateFault' = Append(gateFault, IF raises THEN "group_id" ELSE "none")
    /\ IF pre = NeedsLock
       THEN /\ rate_limit_locks' =
                 IF LockKey(gid) \in DOMAIN rate_limit_locks THEN rate_limit_locks
                 ELSE Put(rate_limit_locks, LockKey(gid), 0)
            /\ pc' = Append(pc, "acquire")
            /\ gateResult' = Append(gateResult, Pending)
       ELSE /\ rate_limit_locks' = rate_limit_locks
            /\ pc' = Append(pc, PostGatePc(pre, u, m))
            /\ gateResult' = Append(gateResult, pre)
    /\ UNCHANGED <<config, stageVars, coreVars, rate_limit_bucket, processing_tasks, now>>

\* line 123: async with self._rate_limit_locks[group_id]. The coroutine may
\* be resumed later than the lock becomes free; asyncio resumes it at once
\* when nobody holds the lock, which is one of the schedules allowed here.
GateAcquire(r) ==
    /\ pc[r] = "acquire"
    /\ LockFree(LockKey(group[r]))
    /\ rate_limit_locks' = [rate_limit_locks EXCEPT ![LockKey(group[r])] = r]
    /\ pc' = [pc EXCEPT ![r] = "critical"]
    /\ UNCHANGED <<config, stageVars, coreVars, rate_limit_bucket, processing_tasks, now, user, group,
                   msg, gateResult, gateTime, gateFault>>

\* lines 124-146 under the lock (no suspension point inside), the release of
\* the lock, and cmd_edit_image up to its next suspension point.
GateCritical(r) ==
    LET gid == group[r]
        b == EffectiveWindow(BucketOf(gid))
        result == IF ~limits_are_numbers THEN GateExceptResult
                  ELSE IF LimitReached(b.count) THEN RateLimited
                  ELSE NoDenial
    IN
    /\ pc[r] = "critical"
    /\ gateTime' = [gateTime EXCEPT ![r] = now]
    /\ gateFault' = [gateFault EXCEPT ![r] =
                        IF limits_are_numbers THEN @ ELSE "type_error"]
    /\ rate_limit_bucket' =
           IF limits_are_numbers /\ ~LimitReached(b.count)
           THEN Put(rate_limit_bucket, gid,
                    [window_start |-> b.window_start, count |-> NewCount(b.count)])
           ELSE rate_limit_bucket
    /\ rate_limit_locks' = [rate_limit_locks EXCEPT ![LockKey(gid)] = 0]
    /\ gateResult' = [gateResult EXCEPT ![r] = result]
    /\ pc' = [pc EXCEPT ![r] = PostGatePc(result, user[r], msg[r])]
    /\ UNCHANGED <<config, stageVars, coreVars, processing_tasks, now, user, group, msg>>

\* line 806 resumes: what _extract_images_from_message can return for a
\* message with an Image or Reply component: images (line 181 or 188), no
\* image because every conversion failed (line 193), or the error of the
\* quoted-message fetch (line 191).
ResolveOutcomes(m) ==
    IF m = "media" THEN {"images", "noimage", "error"} ELSE {"noimage"}

\* line 815: a fresh identifier per accepted command.
TaskId(r) == r

\* lines 806-825: the resolver returns; without an image the command ends,
\* otherwise the token is recorded and, unless the status message is yielded
\* first, the edit task is created.
Resolve(r, out) ==
    /\ pc[r] = "resolve"
    /\ out \in ResolveOutcomes(msg[r])
    /\ IF out = "images"
       THEN /\ processing_tasks' = Put(processing_tasks, user[r], TaskId(r))
            /\ pc' = [pc EXCEPT ![r] = IF status_message_mode # "silent"
                                       THEN "status_yield" ELSE "edit_core"]
       ELSE /\ processing_tasks' = processing_tasks
            /\ pc' = [pc EXCEPT ![r] = IF out = "error" THEN "done_error"
                                       ELSE "done_noimage"]
    /\ UNCHANGED <<config, stageVars, coreVars, rate_limit_bucket, rate_limit_locks, now, user, group,
                   msg, gateResult, gateTime, gateFault>>

\* lines 819-825: the generator is resumed after the status message and
\* creates the edit task.
StatusResume(r) ==
    /\ pc[r] = "status_yield"
    /\ pc' = [pc EXCEPT ![r] = "edit_core"]
    /\ UNCHANGED <<config, stageVars, coreVars, rate_limit_bucket, rate_limit_locks, processing_tasks,
                   now, user, group, msg, gateResult, gateTime, gateFault>>

\* lines 816-829: the token is recorded and the handler does not get to
\* asyncio.create_task (line 825): the generator is not resumed after the
\* status message it yielded at lines 819-823 and is closed there (GeneratorExit
\* is not an Exception and the try has no finally), or a statement of lines
\* 819-825 raises and the handler of lines 827-829 yields its message. Neither
\* path touches _processing_tasks.
StatusAbandon(r, how) ==
    /\ pc[r] = "status_yield"
    /\ how \in {"cmd_abandoned", "cmd_failed"}
    /\ pc' = [pc EXCEPT ![r] = how]
    /\ UNCHANGED <<config, stageVars, coreVars, rate_limit_bucket, rate_limit_locks, processing_tasks,
                   now, user, group, msg, gateResult, gateTime, gateFault>>

\* ---------------------------------------------------- _async_edit_image
EditPcs == {"edit_core", "send_error", "send_empty", "deliver", "catch"}

\* The edit task of command r has been created and has not finished.
InFlight(r) == pc[r] \in EditPcs

\* lines 788-790: the finally block removes the token if it is this edit's.
FinallyClear(tasks, u, task_id) ==
    IF u \in DOMAIN tasks /\ tasks[u] = task_id THEN Remove(tasks, u) ELSE tasks

\* The token is cleared only when the body returns, not when the exception of
\* the catch-all handler escapes (the clean-up placed after, not in, finally).
EditExitNoFinally(r, how) ==
    /\ processing_tasks' = IF how = "edit_raised" THEN processing_tasks
                           ELSE FinallyClear(processing_tasks, user[r], TaskId(r))
    /\ pc' = [pc EXCEPT ![r] = how]

\* The body leaves through its finally block (no suspension point in it):
\* it returns, or the exception raised inside the catch-all handler escapes.
EditExit(r, how) ==
    /\ processing_tasks' = FinallyClear(processing_tasks, user[r], TaskId(r))
    /\ pc' = [pc EXCEPT ![r] = how]

\* lines 735-745 with 694-721: _generate_image_edit_core is given the images
\* the command resolved, calls _call_grok_api (line 712) and returns its error
\* ("error"), or writes the inline results to files (lines 714-719, which await
\* nothing) and returns no image at all because every write failed ("empty"),
\* remote URLs only ("ok"), or local files too ("ok_files"); or it raises.
EditCore(r, out) ==
    /\ pc[r] = "edit_core"
    /\ out \in {"error", "empty", "ok", "ok_files", "raise"}
    /\ pc' = [pc EXCEPT ![r] = CASE out = "error" -> "send_error"
                                  [] out = "empty" -> "send_empty"
                                  [] out \in {"ok", "ok_files"} -> "deliver"
                                  [] out = "raise" -> "catch"]
    /\ api_calls' = api_calls \cup {r}
    /\ materialized' = IF out = "ok_files" THEN materialized \cup {r}
                       ELSE materialized
    /\ UNCHANGED <<config, stageVars, rate_limit_bucket, rate_limit_locks, processing_tasks,
                   now, user, group, msg, gateResult, gateTime, gateFault>>

\* lines 740-741 and 744-745: the failure message is sent, or sending raises.
EditSendFailure(r, sent) ==
    /\ pc[r] \in {"send_error", "send_empty"}
    /\ IF sent
       THEN EditExit(r, "edit_returned")
       ELSE /\ pc' = [pc EXCEPT ![r] = "catch"]
            /\ UNCHANGED processing_tasks
    /\ UNCHANGED <<config, stageVars, coreVars, rate_limit_bucket, rate_limit_locks, now, user, group,
                   msg, gateResult, gateTime, gateFault>>

\* lines 747-782: the images are sent within the timeout, or the wait times
\* out, and the local files are cleaned up; or a step of the delivery raises.
EditDeliver(r, out) ==
    /\ pc[r] = "deliver"
    /\ out \in {"delivered", "timeout", "raise"}
    /\ IF out = "raise"
       THEN /\ pc' = [pc EXCEPT ![r] = "catch"]
            /\ UNCHANGED processing_tasks
       ELSE EditExit(r, "edit_returned")
    /\ UNCHANGED <<config, stageVars, coreVars, rate_limit_bucket, rate_limit_locks, now, user, group,
                   msg, gateResult, gateTime, gateFault>>

\* lines 784-786: the catch-all sends the failure message, or that raises.
EditCatch(r, sent) ==
    /\ pc[r] = "catch"
    /\ EditExit(r, IF sent THEN "edit_returned" ELSE "edit_raised")
    /\ UNCHANGED <<config, stageVars, coreVars, rate_limit_bucket, rate_limit_locks, now, user, group,
                   msg, gateResult, gateTime, gateFault>>

\* time.time() advances.
Tick ==
    /\ now < MaxClock
    /\ now' = now + 1
    /\ UNCHANGED <<config, stageVars, coreVars, rate_limit_bucket, rate_limit_locks, processing_tasks,
                   reqVars>>

\* ------------------------------------------------------ _call_grok_api
\* What the upstream does with one POST (line 414): status 200 with a body the
\* parser gets an image from, status 200 with a body that is not JSON, status
\* 200 with a body the parser gets no image from, status 403, any other
\* status, httpx.TimeoutException, any other exception.
ApiOutcomes == {"ok_image", "ok_badjson", "ok_noimage", "forbidden",
                "status_error", "timeout", "transport_error"}

\* A configuration without a key is not noticed.
KeyNeverMissing == FALSE

\* line 375: not self.api_key.
KeyMissing == ~api_key

\* Status 403 is retried like any other status.
RetryableWith403(outcome) ==
    outcome \in {"forbidden", "status_error", "timeout", "transport_error"}

\* lines 438-469: the outcomes that do not return at once.
Retryable(outcome) == outcome \in {"status_error", "timeout", "transport_error"}

\* The last attempt is looked for one iteration too late.
LastAttemptLate(a) == a = max_retry_attempts

\* lines 451, 459, 466: attempt == self.max_retry_attempts - 1.
LastAttempt(a) == a = max_retry_attempts - 1

\* The tuple returned for an outcome that ends the call: lines 427 and 431
\* (no image), 430 (images), 433 (JSON), 436 (403), 452, 460, 467.
ApiReturn(outcome) ==
    CASE outcome = "ok_image" -> [images |-> TRUE, error |-> "none"]
      [] outcome = "ok_badjson" -> [images |-> FALSE, error |-> "json_decode"]
      [] outcome = "ok_noimage" -> [images |-> FALSE, error |-> "no_image"]
      [] outcome = "forbidden" -> [images |-> FALSE, error |-> "forbidden"]
      [] outcome = "status_error" -> [images |-> FALSE, error |-> "status"]
      [] outcome = "timeout" -> [images |-> FALSE, error |-> "timeout"]
      [] outcome = "transport_error" -> [images |-> FALSE, error |-> "exception"]

\* lines 375-407: the key check, then the loop is entered unless
\* range(max_retry_attempts) is empty (line 471).
ApiCall ==
    /\ api_pc = "idle"
    /\ IF KeyMissing
       THEN /\ api_pc' = "returned"
            /\ api_result' = [images |-> FALSE, error |-> "no_key"]
       ELSE IF max_retry_attempts <= 0
       THEN /\ api_pc' = "returned"
            /\ api_result' = [images |-> FALSE, error |-> "all_retries_failed"]
       ELSE /\ api_pc' = "post"
            /\ api_result' = api_result
    /\ UNCHANGED <<config, pluginVars, resolverVars, deliverVars, parserVars, attempt, responses>>

\* lines 413-469: the POST of this attempt ends with outcome; the call returns,
\* or sleeps before the next attempt.
ApiPost(outcome) ==
    /\ api_pc = "post"
    /\ responses' = Append(responses, outcome)
    /\ IF Retryable(outcome) /\ ~LastAttempt(attempt)
       THEN /\ api_pc' = "sleep"
            /\ api_result' = api_result
       ELSE /\ api_pc' = "returned"
            /\ api_result' = ApiReturn(outcome)
    /\ UNCHANGED <<config, pluginVars, resolverVars, deliverVars, parserVars, attempt>>

\* lines 455, 462, 469 then 407: asyncio.sleep() is over and the loop takes its
\* next value, or ends (line 471).
ApiSleep ==
    /\ api_pc = "sleep"
    /\ IF attempt + 1 < max_retry_attempts
       THEN /\ attempt' = attempt + 1
            /\ api_pc' = "post"
            /\ api_result' = api_result
       ELSE /\ attempt' = attempt
            /\ api_pc' = "returned"
            /\ api_result' = [images |-> FALSE, error |-> "all_retries_failed"]
    /\ UNCHANGED <<config, pluginVars, resolverVars, deliverVars, parserVars, responses>>

\* ------------------------------------- _async_edit_image: the delivery
\* The cap is noticed one entry too late.
CapReachedLate(cnt) == cnt > max_images_per_response

\* lines 754 and 760: count >= self.max_images_per_response.
CapReached(cnt) == cnt >= max_images_per_response

UrlComponent(url) == [kind |-> "url", ref |-> url, via |-> "remote"]
FileComponent(path, via) == [kind |-> "file", ref |-> path, via |-> via]

\* lines 753-757: the loop over the remote URLs, from position i on.
RECURSIVE AppendUrls(_, _, _)
AppendUrls(urls, i, comps) ==
    IF i > Len(urls) \/ CapReached(Len(comps)) THEN comps
    ELSE AppendUrls(urls, i + 1, Append(comps, UrlComponent(urls[i])))

\* lines 750-757: the loop over the remote URLs; it awaits nothing.
DeliverUrls ==
    /\ deliver_pc = "idle"
    /\ components' = AppendUrls(image_urls, 1, << >>)
    /\ deliver_pc' = "paths"
    /\ UNCHANGED <<config, pluginVars, resolverVars, apiVars, parserVars, image_urls, image_paths,
                   path_index, transfer, timed_out, storage, unlink_failed>>

\* lines 759-764: one iteration of the loop over the local files;
\* _prepare_image_path (lines 655-671) returns the path the relay gave, or the
\* local path when no relay is configured or the relay failed.
DeliverPath(via) ==
    /\ deliver_pc = "paths"
    /\ path_index <= Len(image_paths)
    /\ ~CapReached(Len(components))
    /\ components' = Append(components, FileComponent(image_paths[path_index], via))
    /\ path_index' = path_index + 1
    /\ UNCHANGED <<config, pluginVars, resolverVars, apiVars, parserVars, image_urls, image_paths,
                   deliver_pc, transfer, timed_out, storage, unlink_failed>>

\* lines 759-768: the loop over the local files is over; a message with
\* components is handed to event.send under asyncio.wait_for, a message
\* without any is not sent.
DeliverSend ==
    /\ deliver_pc = "paths"
    /\ path_index > Len(image_paths) \/ CapReached(Len(components))
    /\ IF components # << >>
       THEN /\ deliver_pc' = "sending"
            /\ transfer' = "running"
       ELSE /\ deliver_pc' = "cleanup"
            /\ transfer' = transfer
    /\ path_index' = 1
    /\ UNCHANGED <<config, pluginVars, resolverVars, apiVars, parserVars, image_urls, image_paths,
                   components, timed_out, storage, unlink_failed>>

\* line 768: event.send returned within the 60 seconds.
SendCompletes ==
    /\ deliver_pc = "sending"
    /\ transfer' = "completed"
    /\ deliver_pc' = "cleanup"
    /\ UNCHANGED <<config, pluginVars, resolverVars, apiVars, parserVars, image_urls, image_paths,
                   components, path_index, timed_out, storage,
                   unlink_failed>>

\* lines 768-772: the 60 seconds are over. asyncio.wait_for cancels the
\* coroutine it awaits, waits until the cancellation has ended it and raises
\* TimeoutError, which the handler of line 771 logs.
SendTimeout ==
    /\ deliver_pc = "sending"
    /\ transfer' = "cancelled"
    /\ timed_out' = TRUE
    /\ deliver_pc' = "cleanup"
    /\ UNCHANGED <<config, pluginVars, resolverVars, apiVars, parserVars, image_urls, image_paths,
                   components, path_index, storage, unlink_failed>>

\* lines 768, 784-786: event.send raised; the catch-all handler runs and the
\* cleanup loop is skipped.
SendRaises ==
    /\ deliver_pc = "sending"
    /\ transfer' = "failed"
    /\ deliver_pc' = "caught"
    /\ UNCHANGED <<config, pluginVars, resolverVars, apiVars, parserVars, image_urls, image_paths,
                   components, path_index, timed_out, storage,
                   unlink_failed>>

\* Nothing is retained, whatever the configuration.
RetainedNever == FALSE

\* line 676: self.save_image_enabled.
Retained == save_image_enabled

\* lines 673-684: _cleanup_image_file(path); unlink_ok tells whether
\* Path.unlink() (line 682) succeeds.
CleanupImageFile(path, unlink_ok) ==
    IF Retained \/ path \notin storage
    THEN UNCHANGED <<storage, unlink_failed>>
    ELSE IF unlink_ok
    THEN /\ storage' = storage \ {path}
         /\ unlink_failed' = unlink_failed
    ELSE /\ storage' = storage
         /\ unlink_failed' = unlink_failed \cup {path}

\* lines 781-782: one iteration of the cleanup loop. _cleanup_image_file
\* awaits nothing, so no other coroutine runs between two iterations.
DeliverCleanup(unlink_ok) ==
    /\ deliver_pc = "cleanup"
    /\ path_index <= Len(image_paths)
    /\ CleanupImageFile(image_paths[path_index], unlink_ok)
    /\ path_index' = path_index + 1
    /\ UNCHANGED <<config, pluginVars, resolverVars, apiVars, parserVars, image_urls, image_paths,
                   components, deliver_pc, transfer, timed_out>>

\* lines 781-791: the cleanup loop is over.
DeliverEnd ==
    /\ deliver_pc = "cleanup"
    /\ path_index > Len(image_paths)
    /\ deliver_pc' = "done"
    /\ UNCHANGED <<config, pluginVars, resolverVars, apiVars, parserVars, image_urls, image_paths,
                   components, path_index, transfer, timed_out,
                   storage, unlink_failed>>

\* ---------------------------------------------- _extract_image_results
\* lines 596-607: _is_valid_image_url.
IsValidImageUrl(url, require_extension) ==
    /\ url.str
    /\ url.http
    /\ require_extension => url.ext
    /\ url.clean

\* line 493: f"data:image/png;base64,{b64_json}".
PngDataUrl(b64_json) == <<"data:image/png;base64,", b64_json>>

\* Every item is kept, seen before or not.
DedupeNothing(items) == items

\* lines 557-561: the loop of _dedupe_preserve from position i on. The items
\* that reach it are valid URLs and data URIs, none of them the empty string.
RECURSIVE DedupeFrom(_, _, _)
DedupeFrom(items, i, result) ==
    IF i > Len(items) THEN result
    ELSE IF \E k \in 1..Len(result) : result[k] = items[i]
    THEN DedupeFrom(items, i + 1, result)
    ELSE DedupeFrom(items, i + 1, Append(result, items[i]))

\* lines 554-562: _dedupe_preserve.
DedupePreserve(items) == DedupeFrom(items, 1, << >>)

UrlsOf(seq) == [i \in 1..Len(seq) |-> seq[i].url]

\* lines 485-490: the URLs of the data list.
DataUrlList(data) ==
    LET Good(item) == item.dict /\ IsValidImageUrl(item.url, FALSE)
    IN UrlsOf(SelectSeq(data, Good))

\* lines 485-493: the data URIs of the data list; b64_json "None" stands for a
\* value that is not a string.
DataUriList(data) ==
    LET Good(item) == item.dict /\ item.b64_json \notin {"None", ""}
        sel == SelectSeq(data, Good)
    IN [i \in 1..Len(sel) |-> PngDataUrl(sel[i].b64_json)]

\* lines 564-588: _extract_image_urls_from_text. A text is the sequence of the
\* image references it holds: <img src=...>, ![...](...), a bare URL, a data
\* URI. The pattern of line 583 finds an http(s) URL that ends with an image
\* extension wherever it stands, inside a tag or a link too.
ExtractImageUrlsFromText(text) ==
    LET Html(t) == t.form = "html" /\ IsValidImageUrl(t.url, FALSE)
        Md(t) == t.form = "md" /\ IsValidImageUrl(t.url, FALSE)
        Direct(t) == /\ t.form \in {"html", "md", "bare"}
                     /\ t.url.http /\ t.url.ext
                     /\ IsValidImageUrl(t.url, TRUE)
    IN UrlsOf(SelectSeq(text, Html)) \o UrlsOf(SelectSeq(text, Md))
          \o UrlsOf(SelectSeq(text, Direct))

\* lines 590-594: _extract_data_urls_from_text.
ExtractDataUrlsFromText(text) ==
    LET IsData(t) == t.form = "data"
        sel == SelectSeq(text, IsData)
    IN [i \in 1..Len(sel) |-> sel[i].uri]

\* lines 508-524: the texts of the parts of type text, joined from part i on.
RECURSIVE JoinTextParts(_, _)
JoinTextParts(parts, i) ==
    IF i > Len(parts) THEN << >>
    ELSE IF parts[i].type = "text" THEN parts[i].text \o JoinTextParts(parts, i + 1)
    ELSE JoinTextParts(parts, i + 1)

\* lines 506-530: the URLs of the message content.
ContentUrlList(response) ==
    IF response.content = "list"
    THEN LET Img(part) == part.type = "image_url" /\ IsValidImageUrl(part.url, FALSE)
         IN UrlsOf(SelectSeq(response.parts, Img))
               \o ExtractImageUrlsFromText(JoinTextParts(response.parts, 1))
    ELSE IF response.content = "text"
    THEN ExtractImageUrlsFromText(response.text)
    ELSE << >>

\* lines 506-530: the data URIs of the message content.
ContentUriList(response) ==
    IF response.content = "list"
    THEN ExtractDataUrlsFromText(JoinTextParts(response.parts, 1))
    ELSE IF response.content = "text"
    THEN ExtractDataUrlsFromText(response.text)
    ELSE << >>

\* lines 533-540: the URLs of attachments, media, files and images, the four
\* lists one after the other.
AttachmentUrlList(response) ==
    LET Good(url) == IsValidImageUrl(url, FALSE)
    IN SelectSeq(response.attachments, Good)

\* line 501: the first choice is a dict and its message can be read.
MessageRead(response) == response.choice = "dict" /\ response.message = "dict"

\* lines 483-540: image_urls as collected from the data list, the message
\* content and the attachments, before line 542.
CollectedUrls(response) ==
    (IF response.data_is_list THEN DataUrlList(response.data) ELSE << >>)
    \o (IF MessageRead(response)
        THEN ContentUrlList(response) \o AttachmentUrlList(response)
        ELSE << >>)

\* lines 483-530: data_urls as collected, before line 543.
CollectedUris(response) ==
    (IF response.data_is_list THEN DataUriList(response.data) ELSE << >>)
    \o (IF MessageRead(response) THEN ContentUriList(response) ELSE << >>)

\* lines 475-552: _extract_image_results. With a first choice that is a dict,
\* choice.get("message", {}) is whatever the key holds; when that is None or
\* anything else without a get() (line 503 raises AttributeError) the handler
\* of line 550 returns the error and two empty lists.
ExtractImageResults(response) ==
    IF ~response.is_dict
    THEN [image_urls |-> << >>, data_urls |-> << >>, error |-> "invalid_format"]
    ELSE IF response.choice = "dict" /\ response.message = "notdict"
    THEN [image_urls |-> << >>, data_urls |-> << >>, error |-> "extract_failed"]
    ELSE
      LET urls == DedupePreserve(CollectedUrls(response))
          uris == DedupePreserve(CollectedUris(response))
      IN IF urls = << >> /\ uris = << >>
         THEN [image_urls |-> << >>, data_urls |-> << >>, error |-> "no_image"]
         ELSE [image_urls |-> urls, data_urls |-> uris, error |-> "none"]

\* line 425: the parser is called on a decoded body.
Parse ==
    /\ parse_result.error = "pending"
    /\ parse_result' = ExtractImageResults(response_data)
    /\ UNCHANGED <<config, pluginVars, resolverVars, apiVars, deliverVars, response_data>>

\* ---------------------------------------- _extract_images_from_message
\* What _fetch_images_from_reply (lines 247-302) returns for one quoted
\* message: its images, or no image and one of its errors (no OneBot API, the
\* get_msg call failed or answered with a bad status or shape, an image segment
\* could not be converted, the message holds no image). It never returns an
\* empty list without an error.
FetchOutcomes == {"images", "unsupported_adapter", "fetch_failed",
                  "parse_failed", "no_image"}

\* The first error is kept instead of the last one.
KeepFirstError(previous, error) == IF previous = "None" THEN error ELSE previous

\* lines 189-190: if error: last_error = error.
NextLastError(previous, error) == error

\* line 191: last_error or "引用消息中未找到图片", the text that line 302 returns
\* for a quoted message without image.
ErrorOrGeneric(error) == IF error = "None" THEN "no_image" ELSE error

\* lines 150-184: the message's own components; with an image among them, or
\* without any quoted message, the resolver returns without a query.
ResolverStart ==
    /\ resolver_pc = "idle"
    /\ IF direct_images
       THEN /\ resolver_pc' = "returned"
            /\ resolve_result' = [images |-> DirectImages, error |-> "None"]
       ELSE IF reply_ids = << >>
       THEN /\ resolver_pc' = "returned"
            /\ resolve_result' = [images |-> NoImages, error |-> "None"]
       ELSE /\ resolver_pc' = "fetching"
            /\ resolve_result' = resolve_result
    /\ UNCHANGED <<config, pluginVars, apiVars, deliverVars, parserVars,
                   segmentVars, direct_images, reply_ids, reply_index, fetch_log,
                   last_error>>

\* lines 185-191: _fetch_images_from_reply returned for the quoted message the
\* loop is at.
FetchReply(outcome) ==
    /\ resolver_pc = "fetching"
    /\ fetch_log' = Append(fetch_log, [reply_id |-> reply_ids[reply_index],
                                       outcome |-> outcome])
    /\ IF outcome = "images"
       THEN /\ resolver_pc' = "returned"
            /\ resolve_result' = [images |-> ReplyImages(reply_ids[reply_index]),
                                  error |-> "None"]
            /\ UNCHANGED <<last_error, reply_index>>
       ELSE /\ last_error' = NextLastError(last_error, outcome)
            /\ IF reply_index = Len(reply_ids)
               THEN /\ resolver_pc' = "returned"
                    /\ resolve_result' = [images |-> NoImages,
                                          error |-> ErrorOrGeneric(last_error')]
                    /\ reply_index' = reply_index
               ELSE /\ resolver_pc' = "fetching"
                    /\ resolve_result' = resolve_result
                    /\ reply_index' = reply_index + 1
    /\ UNCHANGED <<config, pluginVars, apiVars, deliverVars, parserVars,
                   segmentVars, direct_images, reply_ids>>

\* --------------------------------------- _onebot_image_data_to_data_url
\* The data of an image segment, each source with what using it gives:
\* base64 (or b64) is a non-empty string or not; url is absent, or its download
\* succeeds or fails; file (or file_id) is absent, starts with base64://,
\* resolves through get_image to a URL whose download succeeds or fails, or
\* cannot be resolved; path is absent, names a readable file, names no file,
\* or reading it raises.
SegmentData ==
    [base64 : {"absent", "present"},
     url : {"absent", "ok", "download_fails"},
     file : {"absent", "base64", "ok", "download_fails", "unresolved"},
     path : {"absent", "ok", "missing", "raises"}]

Converted(source) == [data_url |-> source, error |-> "None"]
NotConverted(error) == [data_url |-> "None", error |-> error]

\* The branch of the file identifier returns whatever the identifier gives.
FileBranchAlwaysReturns(file) == TRUE

\* lines 317-328: the branch of the file identifier returns unless get_image
\* gave no URL (line 323), in which case the path is looked at.
FileBranchReturns(file) == file \in {"base64", "ok", "download_fails"}

\* lines 304-339.
OnebotImageDataToDataUrl(data) ==
    IF data.base64 = "present" THEN Converted("base64")
    ELSE IF data.url # "absent"
    THEN (IF data.url = "ok" THEN Converted("url")
          ELSE NotConverted("download_failed"))
    ELSE IF data.file # "absent" /\ FileBranchReturns(data.file)
    THEN (IF data.file \in {"base64", "ok"} THEN Converted("file")
          ELSE NotConverted("download_failed"))
    ELSE IF data.path = "ok" THEN Converted("path")
    ELSE IF data.path = "raises" THEN NotConverted("read_failed")
    ELSE NotConverted("no_source")

\* line 295: the conversion of one image segment returns.
ConvertSegment ==
    /\ convert_result.error = "pending"
    /\ convert_result' = OnebotImageDataToDataUrl(segment_data)
    /\ UNCHANGED <<config, pluginVars, apiVars, deliverVars, parserVars,
                   direct_images, reply_ids, reply_index, fetch_log, last_error,
                   resolver_pc, resolve_result, segment_data>>

\* --------------------------------------------------- gate specification
\* Commands of one user from two groups, rate limiting enabled.
InitGate ==
    InitState({"off"}, {{}}, {TRUE}, 1..MaxWindow, 1..MaxCalls, {TRUE}, {"silent"})

NextGate ==
    \/ \E g \in Groups : CmdStart("u1", g, FALSE, "none", MaxReqGate)
    \/ \E r \in Requests : GateAcquire(r)
    \/ \E r \in Requests : GateCritical(r)
    \/ Tick

SpecGate == InitGate /\ [][NextGate]_vars

\* --------------------------------------------------- task specification
\* Commands of two users in private chats (no group id), each with an image
\* or a quoted message to resolve.
InitTask ==
    InitState({"off"}, {{}}, {TRUE}, {1}, {1}, {TRUE}, StatusModes)

NextTask ==
    \/ \E u \in Users : CmdStart(u, NoGroup, FALSE, "media", MaxReqTask)
    \/ \E r \in Requests, out \in {"images", "noimage", "error"} : Resolve(r, out)
    \/ \E r \in Requests : StatusResume(r)
    \/ \E r \in Requests, out \in {"error", "empty", "ok", "raise"} : EditCore(r, out)
    \/ \E r \in Requests, sent \in BOOLEAN : EditSendFailure(r, sent)
    \/ \E r \in Requests, out \in {"delivered", "timeout", "raise"} : EditDeliver(r, out)
    \/ \E r \in Requests, sent \in BOOLEAN : EditCatch(r, sent)

SpecTask == InitTask /\ [][NextTask]_vars

\* The commands of the task specification with a status message (lines
\* 818-823) that the framework may not resume from.
InitHandler ==
    InitState({"off"}, {{}}, {TRUE}, {1}, {1}, {TRUE}, {"minimal"})

NextHandler ==
    \/ \E u \in Users : CmdStart(u, NoGroup, FALSE, "media", MaxReqTask)
    \/ \E r \in Requests, out \in {"images", "noimage", "error"} : Resolve(r, out)
    \/ \E r \in Requests : StatusResume(r)
    \/ \E r \in Requests, out \in {"error", "empty", "ok", "raise"} : EditCore(r, out)
    \/ \E r \in Requests, sent \in BOOLEAN : EditSendFailure(r, sent)
    \/ \E r \in Requests, out \in {"delivered", "timeout", "raise"} : EditDeliver(r, out)
    \/ \E r \in Requests, sent \in BOOLEAN : EditCatch(r, sent)
    \/ \E r \in Requests, how \in {"cmd_abandoned", "cmd_failed"} : StatusAbandon(r, how)

SpecHandler == InitHandler /\ [][NextHandler]_vars

\* Every await of a command and of an edit returns or raises, and a generator
\* that is going to be resumed is resumed.
SpecHandlerFair ==
    /\ SpecHandler
    /\ WF_vars(\E r \in Requests, out \in {"images", "noimage", "error"} : Resolve(r, out))
    /\ WF_vars(\E r \in Requests : StatusResume(r))
    /\ WF_vars(\E r \in Requests, out \in {"error", "empty", "ok", "raise"} : EditCore(r, out))
    /\ WF_vars(\E r \in Requests, sent \in BOOLEAN : EditSendFailure(r, sent))
    /\ WF_vars(\E r \in Requests, out \in {"delivered", "timeout", "raise"} : EditDeliver(r, out))
    /\ WF_vars(\E r \in Requests, sent \in BOOLEAN : EditCatch(r, sent))

\* -------------------------------------------------- access specification
\* Commands from groups and private chats under every access mode and list,
\* with the group id lookup failing or the limits misconfigured as
\* non-numbers (the comparison of line 129 then raises TypeError).
InitAccess ==
    InitState(ControlModes, SUBSET Groups, BOOLEAN, {1}, {1}, BOOLEAN, {"silent"})

NextAccess ==
    \/ \E g \in Groups \cup {NoGroup}, raises \in BOOLEAN :
          CmdStart("u1", g, raises, "none", MaxReqAccess)
    \/ \E r \in Requests : GateAcquire(r)
    \/ \E r \in Requests : GateCritical(r)

SpecAccess == InitAccess /\ [][NextAccess]_vars

\* ------------------------------------------------- window specification
\* Commands of one user from one group: enough of them to fill two windows.
NextWindow ==
    \/ CmdStart("u1", "g1", FALSE, "none", MaxReqWindow)
    \/ \E r \in Requests : GateAcquire(r)
    \/ \E r \in Requests : GateCritical(r)
    \/ Tick

SpecWindow == InitGate /\ [][NextWindow]_vars

\* ---------------------------------------------------- call specification
\* One upstream call under every retry budget, with and without a key, and
\* every sequence of upstream outcomes.
InitIdlePlugin ==
    InitPlugin({"off"}, {{}}, {FALSE}, {1}, {1}, {TRUE}, {"silent"})

InitApi ==
    /\ InitIdlePlugin
    /\ api_key \in BOOLEAN
    /\ max_retry_attempts \in 0..MaxRetry
    /\ max_images_per_response = 4
    /\ save_image_enabled = FALSE
    /\ StagesIdle

NextApi ==
    \/ ApiCall
    \/ \E outcome \in ApiOutcomes : ApiPost(outcome)
    \/ ApiSleep

SpecApi == InitApi /\ [][NextApi]_vars

\* asyncio.sleep() ends, and the POST ends with a response, with the timeout
\* of line 400 or with an error.
SpecApiFair ==
    /\ SpecApi
    /\ WF_vars(ApiSleep)
    /\ WF_vars(\E outcome \in ApiOutcomes : ApiPost(outcome))

\* ------------------------------------------------ delivery specification
\* The delivery of one edit that returned u remote URLs and p local files, at
\* least one of them (lines 745-747), under every cap and retain flag.
UrlNames == [i \in 1..MaxUrls |-> <<"url", i>>]
PathNames == [i \in 1..MaxPaths |-> <<"file", i>>]

InitDeliver ==
    /\ InitIdlePlugin
    /\ api_key = TRUE
    /\ max_retry_attempts = 3
    /\ max_images_per_response \in 0..MaxImages
    /\ save_image_enabled \in BOOLEAN
    /\ ApiIdle
    /\ ParserIdle(EmptyResponse)
    /\ ResolverIdle(FALSE, << >>)
    /\ \E u \in 0..MaxUrls, p \in 0..MaxPaths :
          /\ u + p >= 1
          /\ DeliverIdle(SubSeq(UrlNames, 1, u), SubSeq(PathNames, 1, p))

NextDeliver ==
    \/ DeliverUrls
    \/ \E via \in {"local", "forwarded"} : DeliverPath(via)
    \/ DeliverSend
    \/ SendCompletes
    \/ SendTimeout
    \/ SendRaises
    \/ \E unlink_ok \in BOOLEAN : DeliverCleanup(unlink_ok)
    \/ DeliverEnd

SpecDeliver == InitDeliver /\ [][NextDeliver]_vars

\* -------------------------------------------------- parser specification
\* The parser on decoded bodies of every shape it looks at: a data list of
\* items with and without URL and payload, no choices, a first choice that is
\* not a dict, a message that is missing, not a dict, or a dict whose content
\* is None, a text or a list of parts, with and without attachments.
SeqsUpTo(S, n) == UNION {[1..k -> S] : k \in 0..n}

DataItems ==
    {[dict |-> TRUE, url |-> UrlA, b64_json |-> "None"],
     [dict |-> TRUE, url |-> UrlBad, b64_json |-> "None"],
     [dict |-> TRUE, url |-> NoUrl, b64_json |-> "AAAA"],
     [dict |-> TRUE, url |-> UrlB, b64_json |-> "BBBB"],
     [dict |-> TRUE, url |-> NoUrl, b64_json |-> ""],
     [dict |-> FALSE, url |-> NoUrl, b64_json |-> "None"]}

NoUri == << >>
TextTokens ==
    {[form |-> "html", url |-> UrlB, uri |-> NoUri],
     [form |-> "md", url |-> UrlA, uri |-> NoUri],
     [form |-> "bare", url |-> UrlA, uri |-> NoUri],
     [form |-> "data", url |-> NoUrl, uri |-> PngDataUrl("AAAA")]}

ContentParts ==
    {[type |-> "image_url", url |-> UrlA, text |-> << >>],
     [type |-> "image_url", url |-> UrlBad, text |-> << >>],
     [type |-> "text", url |-> NoUrl,
      text |-> <<[form |-> "md", url |-> UrlB, uri |-> NoUri]>>],
     [type |-> "text", url |-> NoUrl,
      text |-> <<[form |-> "data", url |-> NoUrl, uri |-> PngDataUrl("BBBB")]>>]}

AttachmentLists == {<< >>, <<UrlA>>, <<UrlBad, UrlB>>}

Messages ==
    {[EmptyResponse EXCEPT !.choice = c] : c \in {"absent", "notdict"}}
    \cup {[EmptyResponse EXCEPT !.choice = "dict", !.message = m] :
            m \in {"missing", "notdict"}}
    \cup {[EmptyResponse EXCEPT !.choice = "dict", !.message = "dict",
                                !.attachments = a] : a \in AttachmentLists}
    \cup {[EmptyResponse EXCEPT !.choice = "dict", !.message = "dict",
                                !.content = "text", !.text = t, !.attachments = a] :
            t \in SeqsUpTo(TextTokens, MaxTokens), a \in AttachmentLists}
    \cup {[EmptyResponse EXCEPT !.choice = "dict", !.message = "dict",
                                !.content = "list", !.parts = ps, !.attachments = a] :
            ps \in SeqsUpTo(ContentParts, MaxParts), a \in AttachmentLists}

Responses ==
    {[EmptyResponse EXCEPT !.is_dict = FALSE]}
    \cup Messages
    \cup {[m EXCEPT !.data_is_list = TRUE, !.data = d] :
            m \in Messages, d \in SeqsUpTo(DataItems, MaxItems)}

InitParser ==
    /\ InitIdlePlugin
    /\ api_key = TRUE
    /\ max_retry_attempts = 3
    /\ max_images_per_response = 4
    /\ save_image_enabled = FALSE
    /\ ApiIdle
    /\ DeliverIdle(<< >>, << >>)
    /\ ResolverIdle(FALSE, << >>)
    /\ \E response \in Responses : ParserIdle(response)

NextParser == Parse

SpecParser == InitParser /\ [][NextParser]_vars

\* ------------------------------------------------ resolver specification
\* The resolver on a message with or without an image of its own and with up
\* to MaxReplies quoted messages, each answering a query in every way.
ReplyNames == [i \in 1..MaxReplies |-> 100 + i]

InitResolver ==
    /\ InitIdlePlugin
    /\ api_key = TRUE
    /\ max_retry_attempts = 3
    /\ max_images_per_response = 4
    /\ save_image_enabled = FALSE
    /\ ApiIdle
    /\ DeliverIdle(<< >>, << >>)
    /\ ParserIdle(EmptyResponse)
    /\ \E direct \in BOOLEAN, n \in 0..MaxReplies :
          ResolverIdle(direct, SubSeq(ReplyNames, 1, n))

NextResolver ==
    \/ ResolverStart
    \/ \E outcome \in FetchOutcomes : FetchReply(outcome)

SpecResolver == InitResolver /\ [][NextResolver]_vars

\* --------------------------------------------------- order specification
\* Commands of one user, from a rate-limited group and from private chats,
\* with and without an image, all within one rate-limit window: commands are
\* denied by the gate, rejected as busy, left without image, and edited.
InitOrder ==
    InitState({"off"}, {{}}, {TRUE}, {MaxWindow}, 1..MaxCalls, {TRUE}, {"silent"})

NextOrder ==
    \/ \E g \in {"g1", NoGroup}, m \in MsgKinds :
          CmdStart("u1", g, FALSE, m, MaxReqOrder)
    \/ \E r \in Requests : GateAcquire(r)
    \/ \E r \in Requests : GateCritical(r)
    \/ \E r \in Requests, out \in {"images", "noimage", "error"} : Resolve(r, out)
    \/ \E r \in Requests, out \in {"error", "empty", "ok", "ok_files", "raise"} :
          EditCore(r, out)
    \/ \E r \in Requests, sent \in BOOLEAN : EditSendFailure(r, sent)
    \/ \E r \in Requests, out \in {"delivered", "timeout", "raise"} : EditDeliver(r, out)
    \/ \E r \in Requests, sent \in BOOLEAN : EditCatch(r, sent)

SpecOrder == InitOrder /\ [][NextOrder]_vars

\* ------------------------------------------------- segment specification
\* The conversion of an image segment with every combination of sources.
InitSegment ==
    /\ InitIdlePlugin
    /\ api_key = TRUE
    /\ max_retry_attempts = 3
    /\ max_images_per_response = 4
    /\ save_image_enabled = FALSE
    /\ ApiIdle
    /\ DeliverIdle(<< >>, << >>)
    /\ ParserIdle(EmptyResponse)
    /\ ResolverLoopIdle(FALSE, << >>)
    /\ \E data \in SegmentData : SegmentIdle(data)

NextSegment == ConvertSegment

SpecSegment == InitSegment /\ [][NextSegment]_vars

\* ================================================================ claims
\* The edits of user u that are in flight.
EditsInFlight(u) == {r \in Requests : InFlight(r) /\ user[r] = u}

\* Command r recorded its token and has not created its edit task yet.
AwaitingTask(r) == pc[r] = "status_yield"

\* C1: for every user, at most one asynchronous edit of that user is in
\* flight at any time, whatever the interleaving of that user's commands.
C1_OneEditPerUser == \A u \in Users : Cardinality(EditsInFlight(u)) <= 1

\* The busy check of command r runs in this step: its gate returns no denial.
BusyCheckStep(r) ==
    /\ r \in DOMAIN gateResult'
    /\ gateResult'[r] = NoDenial
    /\ r \in DOMAIN gateResult => gateResult[r] = Pending

\* C2: a command whose busy check runs while an edit of its user is in flight
\* is rejected as busy and records no token; a command that carries an image
\* and whose busy check runs when no edit of its user is in flight or about
\* to be created passes the busy check.
C2_BusyWhileInFlight ==
    [][\A r \in DOMAIN pc' :
          BusyCheckStep(r) =>
             /\ EditsInFlight(user'[r]) # {} =>
                    pc'[r] = "done_busy" /\ processing_tasks' = processing_tasks
             /\ ( /\ EditsInFlight(user'[r]) = {}
                  /\ \A q \in Requests : ~(AwaitingTask(q) /\ user[q] = user'[r])
                  /\ msg'[r] = "media" ) => pc'[r] = "resolve"]_vars

\* C3: when the asynchronous edit body has left, by return or by the exception
\* of its catch-all handler, its task token is not in the pending-task map.
C3_TokenCleared ==
    \A r \in Requests :
       pc[r] \in {"edit_returned", "edit_raised"} =>
          \A u \in DOMAIN processing_tasks : processing_tasks[u] # TaskId(r)

\* An edit of a user returned, another one of the same user left by the
\* exception of the catch-all handler, and the user is free again.
C3_Witness ==
    \E r1, r2 \in Requests :
       /\ pc[r1] = "edit_raised"
       /\ pc[r2] = "edit_returned"
       /\ user[r1] = user[r2]
       /\ user[r1] \notin DOMAIN processing_tasks

\* ----------------------------------------------------------- rate limit
\* The checks of group g that the rate limiter allowed at a time in [from, to).
AllowedBetween(g, from, to) ==
    {r \in Requests : /\ group[r] = g
                      /\ gateResult[r] = NoDenial
                      /\ gateTime[r] >= from
                      /\ gateTime[r] < to}

\* The checks of group g that the rate limiter allowed since window_start.
AllowedSince(g, window_start) ==
    {r \in Requests : /\ group[r] = g
                      /\ gateResult[r] = NoDenial
                      /\ gateTime[r] >= window_start}

\* Command r leaves the critical section of the gate in this step.
CriticalStep(r) == pc[r] = "critical" /\ pc'[r] # "critical"

\* The start of the window a check of g made now falls into.
WindowAt(g) ==
    IF /\ g \in DOMAIN rate_limit_bucket
       /\ now - rate_limit_bucket[g].window_start < rate_limit_window_seconds
    THEN rate_limit_bucket[g].window_start
    ELSE now

\* C4: within one window exactly max_calls checks of a group are allowed:
\* the stored count and the number of checks allowed since window_start never
\* exceed max_calls, a check is allowed when fewer than max_calls were allowed
\* in its window, and otherwise denied with max_calls and window_seconds named.
C4_ExactlyMaxCalls ==
    /\ [](\A g \in DOMAIN rate_limit_bucket :
            /\ rate_limit_bucket[g].count <= rate_limit_max_calls
            /\ Cardinality(AllowedSince(g, rate_limit_bucket[g].window_start))
                  <= rate_limit_max_calls)
    /\ [][\A r \in Requests :
            CriticalStep(r) =>
               IF Cardinality(AllowedSince(group[r], WindowAt(group[r])))
                     < rate_limit_max_calls
               THEN gateResult'[r] = NoDenial
               ELSE gateResult'[r] =
                      [kind |-> "rate_limited",
                       max_calls |-> rate_limit_max_calls,
                       window_seconds |-> rate_limit_window_seconds]]_vars

\* Two checks were allowed in the current window and a third one, made in the
\* same window, was denied.
C4_Witness ==
    \E g \in DOMAIN rate_limit_bucket, r \in Requests :
       /\ rate_limit_max_calls = 2
       /\ rate_limit_bucket[g].count = 2
       /\ Cardinality(AllowedSince(g, rate_limit_bucket[g].window_start)) = 2
       /\ group[r] = g
       /\ gateResult[r].kind = "rate_limited"
       /\ gateTime[r] >= rate_limit_bucket[g].window_start

\* C5: a check made when now - window_start >= window_seconds starts a new
\* window at the current time, counts from zero and is allowed, whatever the
\* stored count was.
C5_WindowReset ==
    [][\A r \in Requests :
          ( /\ CriticalStep(r)
            /\ group[r] \in DOMAIN rate_limit_bucket
            /\ now - rate_limit_bucket[group[r]].window_start
                  >= rate_limit_window_seconds )
          => /\ rate_limit_bucket'[group[r]] = [window_start |-> now, count |-> 1]
             /\ gateResult'[r] = NoDenial]_vars

\* A window that was full (count = max_calls = 2) was replaced, exactly
\* window_seconds after its start, by a new window with count 1.
C5_Witness ==
    \E g \in DOMAIN rate_limit_bucket :
       LET ws == rate_limit_bucket[g].window_start
           old == ws - rate_limit_window_seconds
       IN /\ rate_limit_max_calls = 2
          /\ old >= 0
          /\ rate_limit_bucket[g].count = 1
          /\ Cardinality(AllowedBetween(g, old, ws)) = 2
          /\ \E r \in AllowedBetween(g, old, ws) : gateTime[r] = old

\* C6 as stated: every interval of length window_seconds holds at most
\* max_calls allowed checks of a group.
C6_SlidingWindow ==
    \A g \in Groups, t \in 0..MaxClock :
       Cardinality(AllowedBetween(g, t, t + rate_limit_window_seconds))
          <= rate_limit_max_calls

\* C6 amended: the counter is a fixed-window one. The interval that starts at a
\* stored window_start holds at most max_calls allowed checks, and an
\* arbitrary interval of length window_seconds at most 2 * max_calls.
C6_FixedWindow ==
    /\ \A g \in DOMAIN rate_limit_bucket :
          Cardinality(AllowedBetween(g, rate_limit_bucket[g].window_start,
                         rate_limit_bucket[g].window_start
                            + rate_limit_window_seconds))
             <= rate_limit_max_calls
    /\ \A g \in Groups, t \in 0..MaxClock :
          Cardinality(AllowedBetween(g, t, t + rate_limit_window_seconds))
             <= 2 * rate_limit_max_calls

\* An interval that straddles two windows holds more than max_calls allowed
\* checks.
C6_Witness ==
    \E g \in DOMAIN rate_limit_bucket, t \in 0..MaxClock :
       /\ t < rate_limit_bucket[g].window_start
       /\ Cardinality(AllowedBetween(g, t, t + rate_limit_window_seconds))
             > rate_limit_max_calls

\* C7: concurrent checks of one group are linearized: at most one of them is
\* inside the critical section, and the stored count is exactly the number of
\* checks allowed in the current window, whatever the interleaving; the lock
\* of a group exists once the group has a bucket or a check under way.
C7_Linearized ==
    /\ \A g \in Groups :
          Cardinality({r \in Requests : pc[r] = "critical" /\ group[r] = g}) <= 1
    /\ \A g \in DOMAIN rate_limit_bucket :
          /\ LockKey(g) \in DOMAIN rate_limit_locks
          /\ rate_limit_bucket[g].count
                = Cardinality(AllowedSince(g, rate_limit_bucket[g].window_start))
    /\ \A r \in Requests :
          pc[r] \in {"acquire", "critical"} =>
             LockKey(group[r]) \in DOMAIN rate_limit_locks

\* Two checks of one group were counted while a third one of the same group
\* holds the lock.
C7_Witness ==
    \E g \in DOMAIN rate_limit_bucket, r \in Requests :
       /\ rate_limit_bucket[g].count = 2
       /\ Cardinality(AllowedSince(g, rate_limit_bucket[g].window_start)) = 2
       /\ group[r] = g
       /\ pc[r] = "critical"

\* Command r is inside _check_group_access in this step.
GateStep(r) ==
    \/ r \notin DOMAIN pc
    \/ pc[r] \in {"acquire", "critical"} /\ pc'[r] # pc[r]

\* C8: a check of one group waits only for a lock held by a check of the same
\* group, and it leaves the bucket of every other group as it was.
C8_ScopesIndependent ==
    /\ [](\A r \in Requests :
            (pc[r] = "acquire" /\ ~LockFree(LockKey(group[r]))) =>
               group[rate_limit_locks[LockKey(group[r])]] = group[r])
    /\ [][\A r \in DOMAIN pc' :
            GateStep(r) =>
               \A g \in Groups \ {group'[r]} :
                  /\ g \in DOMAIN rate_limit_bucket' <=> g \in DOMAIN rate_limit_bucket
                  /\ g \in DOMAIN rate_limit_bucket =>
                        rate_limit_bucket'[g] = rate_limit_bucket[g]]_vars

\* A check of one group was allowed and the next one denied, while a check of
\* the other group holds that group's lock and its bucket does not exist yet.
C8_Witness ==
    \E r1, r2, r3 \in Requests :
       /\ gateResult[r1] = NoDenial
       /\ gateResult[r2].kind = "rate_limited"
       /\ group[r1] = group[r2]
       /\ pc[r3] = "critical"
       /\ group[r3] # group[r1]
       /\ group[r3] \notin DOMAIN rate_limit_bucket

\* C9: a command from a group outside the whitelist is denied as not
\* authorized, one from a blacklisted group as restricted, and in mode off no
\* command is denied on access-list grounds.
C9_AccessLists ==
    \A r \in Requests :
       group[r] # NoGroup =>
          /\ (group_control_mode = "whitelist" /\ group[r] \notin group_list)
                => gateResult[r] = NotAuthorized
          /\ (group_control_mode = "blacklist" /\ group[r] \in group_list)
                => gateResult[r] = Restricted
          /\ group_control_mode = "off"
                => gateResult[r].kind \notin {"not_authorized", "restricted"}

\* Under a whitelist one group was denied and a listed group was let through.
C9_Witness ==
    \E r1, r2 \in Requests :
       /\ group_control_mode = "whitelist"
       /\ gateResult[r1] = NotAuthorized
       /\ group[r2] \in group_list
       /\ gateResult[r2] = NoDenial

\* C10: a command whose gate evaluation hit an exception (the group id lookup
\* raised, or a comparison inside the critical section raised) gets no denial
\* and goes on to the busy check.
C10_FailOpen ==
    \A r \in Requests :
       (gateFault[r] # "none" /\ pc[r] \notin {"acquire", "critical"}) =>
          /\ gateResult[r] = NoDenial
          /\ pc[r] \in {"done_busy", "done_noimage", "resolve"}

\* The comparison raised under the lock for one command and the group id
\* lookup raised for another; both went past the busy check and the lock is
\* free again.
C10_Witness ==
    \E r1, r2 \in Requests :
       /\ gateFault[r1] = "type_error"
       /\ gateFault[r2] = "group_id"
       /\ pc[r1] = "done_noimage"
       /\ pc[r2] = "done_noimage"
       /\ LockFree(LockKey(group[r1]))
       /\ rate_limit_bucket = EmptyMap

\* The POSTs made so far.
Attempts == Len(responses)

\* The call makes at most N attempts; it returns after a retryable failure only
\* on the N-th attempt, and then with that failure's error; with N = 2 a failing
\* status followed by a parsable image is a success after two attempts.
RetryBudgetKept ==
    max_retry_attempts >= 1 =>
        /\ Attempts <= max_retry_attempts
        /\ (api_pc = "returned" /\ Attempts > 0 /\ Retryable(responses[Attempts]))
              => /\ Attempts = max_retry_attempts
                 /\ api_result = ApiReturn(responses[Attempts])
                 /\ api_result.error \in {"status", "timeout", "exception"}
        /\ (api_pc = "returned" /\ max_retry_attempts = 2
              /\ responses = <<"status_error", "ok_image">>)
              => api_result = [images |-> TRUE, error |-> "none"]

\* A retryable failure before the N-th attempt does not end the call, and the
\* sleep that follows it leads to the next POST.
RetryStep ==
    /\ (api_pc = "post" /\ api_pc' # "post" /\ Retryable(responses'[Attempts + 1])
          /\ Attempts + 1 < max_retry_attempts) => api_pc' = "sleep"
    /\ api_pc = "sleep" => (api_pc' = "post" /\ attempt' = attempt + 1)

\* C11: with a retry budget N >= 1 the API client makes at most N attempts; a
\* retryable failure (a status other than 200 and 403, a timeout, a transport
\* error) before the N-th attempt is always followed by another attempt, and on
\* the N-th attempt it ends the call with that failure's error; with N = 2, a
\* 500 followed by a 200 with an image succeeds after exactly two attempts.
C11_RetryBudget ==
    /\ []RetryBudgetKept
    /\ [][RetryStep]_vars
    /\ (api_pc = "sleep") ~> (api_pc = "post" /\ Attempts < max_retry_attempts)

C11_Witness ==
    /\ max_retry_attempts = 2
    /\ responses = <<"status_error", "ok_image">>
    /\ api_pc = "returned"
    /\ api_result.images

\* C12: a 403 response, a 200 response with malformed JSON and a 200 response
\* from which no image is extracted end the call with an error at once: no
\* attempt follows them, whatever budget is left.
C12_TerminalOutcomes ==
    /\ \A i \in 1..Attempts :
          responses[i] \in {"forbidden", "ok_badjson", "ok_noimage"}
             => i = Attempts /\ api_pc = "returned"
    /\ (Attempts > 0 /\ responses[Attempts] \in {"forbidden", "ok_badjson", "ok_noimage"})
          => /\ ~api_result.images
             /\ api_result.error \in {"forbidden", "json_decode", "no_image"}
             /\ api_result = ApiReturn(responses[Attempts])

C12_Witness ==
    /\ max_retry_attempts = 3
    /\ responses = <<"timeout", "forbidden">>
    /\ api_pc = "returned"
    /\ api_result.error = "forbidden"

\* C13: without a credential the call returns an error and no image, and makes
\* no network attempt, whatever the retry budget.
C13_NoKeyNoAttempt ==
    ~api_key =>
        /\ Attempts = 0
        /\ api_pc \in {"idle", "returned"}
        /\ api_pc = "returned" => api_result = [images |-> FALSE, error |-> "no_key"]

C13_Witness ==
    /\ ~api_key
    /\ max_retry_attempts = MaxRetry
    /\ api_pc = "returned"
    /\ api_result.error = "no_key"

Min(a, b) == IF a <= b THEN a ELSE b
Max(a, b) == IF a >= b THEN a ELSE b

\* The message of this edit has been built.
Built == deliver_pc \in {"sending", "cleanup", "done", "caught"}

\* C14: with a cap m, u remote URLs and p local files, the delivered list has
\* exactly min(m, u + p) entries: the first min(m, u) remote URLs in order,
\* then the first min(max(m - u, 0), p) local files in order.
C14_Cap ==
    Built =>
        LET m == max_images_per_response
            u == Len(image_urls)
            p == Len(image_paths)
        IN /\ Len(components) = Min(m, u + p)
           /\ \A i \in 1..Min(m, u) :
                 components[i].kind = "url" /\ components[i].ref = image_urls[i]
           /\ \A j \in 1..Min(Max(m - u, 0), p) :
                 /\ components[Min(m, u) + j].kind = "file"
                 /\ components[Min(m, u) + j].ref = image_paths[j]

C14_Witness ==
    /\ deliver_pc = "done"
    /\ transfer = "completed"
    /\ Len(image_urls) = 2
    /\ Len(image_paths) = 2
    /\ max_images_per_response = 3
    /\ Len(components) = 3
    /\ components[3].ref = image_paths[1]

\* The files _cleanup_image_file has been called on.
CleanedUp ==
    IF deliver_pc = "done" THEN {image_paths[i] : i \in 1..Len(image_paths)}
    ELSE IF deliver_pc = "cleanup" THEN {image_paths[i] : i \in 1..(path_index - 1)}
    ELSE {}

\* C15 as stated: after cleanup has been called on a file's path the file is
\* absent when the retain flag is off and present when it is on.
C15_AbsentAfterCleanup ==
    \A f \in CleanedUp :
        /\ ~save_image_enabled => f \notin storage
        /\ save_image_enabled => f \in storage

\* Cleanup returns to the loop that called it: the loop goes on to its next
\* file and the catch-all handler is not entered.
CleanupReturns ==
    (deliver_pc = "cleanup" /\ path_index <= Len(image_paths))
        => (deliver_pc' = "cleanup" /\ path_index' = path_index + 1)

\* C15, amended: after cleanup has been called on a file's path, the file is
\* present when the retain flag is on; when the flag is off the file is absent
\* unless its removal failed, and then the failure was logged and the file is
\* still there. Cleanup never raises to its caller.
C15_CleanupBestEffort ==
    /\ [](\A f \in CleanedUp :
            /\ save_image_enabled => f \in storage
            /\ ~save_image_enabled => (f \in storage <=> f \in unlink_failed))
    /\ [][CleanupReturns]_vars

C15_Witness ==
    /\ deliver_pc = "done"
    /\ ~save_image_enabled
    /\ Len(image_paths) = 2
    /\ image_paths[1] \notin storage
    /\ image_paths[2] \in storage
    /\ image_paths[2] \in unlink_failed

\* C16: when the delivery exceeds its 60 seconds the transfer that was started
\* is not cancelled; the edit only stops waiting for it.
C16_TransferNotCancelled ==
    timed_out => transfer \in {"running", "completed"}

Range(seq) == {seq[i] : i \in 1..Len(seq)}
IsPrefix(a, b) == Len(a) <= Len(b) /\ SubSeq(b, 1, Len(a)) = a

\* The parser has returned.
Parsed == parse_result.error # "pending"

\* The valid remote URLs and the data URIs the extraction sources of a
\* response hold: its data list, and the content, text and attachments of its
\* first choice's message when there is such a message.
SourceUrls(response) ==
    (IF response.data_is_list THEN Range(DataUrlList(response.data)) ELSE {})
    \cup (IF MessageRead(response)
          THEN Range(ContentUrlList(response)) \cup Range(AttachmentUrlList(response))
          ELSE {})

SourceUris(response) ==
    (IF response.data_is_list THEN Range(DataUriList(response.data)) ELSE {})
    \cup (IF MessageRead(response) THEN Range(ContentUriList(response)) ELSE {})

\* C17: for a response that is a JSON object the parser returns an error only
\* if no extraction source holds a valid remote URL or a data URI; whenever a
\* source holds a valid image the result carries that image and no error,
\* whatever the shape of the other fields.
C17_ErrorOnlyWithoutImage ==
    (Parsed /\ response_data.is_dict) =>
        LET urls == SourceUrls(response_data)
            uris == SourceUris(response_data)
        IN /\ parse_result.error # "none" => (urls = {} /\ uris = {})
           /\ (urls # {} \/ uris # {}) =>
                 /\ parse_result.error = "none"
                 /\ urls \subseteq Range(parse_result.image_urls)
                 /\ uris \subseteq Range(parse_result.data_urls)

\* The position at which x is first seen in seq.
FirstIndex(seq, x) ==
    CHOOSE i \in 1..Len(seq) : seq[i] = x /\ \A k \in 1..(i - 1) : seq[k] # x

\* out holds every element of seq once, in the order of first occurrence.
KeepsFirstSeen(seq, out) ==
    /\ Range(out) = Range(seq)
    /\ \A i, j \in 1..Len(out) :
          i < j => FirstIndex(seq, out[i]) < FirstIndex(seq, out[j])

\* C18: the URL list and the inline list the parser returns hold no duplicate
\* and keep first-seen order: a URL that two extraction sources produce appears
\* once, at the position of its first occurrence; deduplicating a returned
\* list again changes nothing.
C18_DedupeFirstSeen ==
    Parsed =>
        /\ \A i, j \in 1..Len(parse_result.image_urls) :
              parse_result.image_urls[i] = parse_result.image_urls[j] => i = j
        /\ \A i, j \in 1..Len(parse_result.data_urls) :
              parse_result.data_urls[i] = parse_result.data_urls[j] => i = j
        /\ parse_result.error = "none" =>
              /\ KeepsFirstSeen(CollectedUrls(response_data), parse_result.image_urls)
              /\ KeepsFirstSeen(CollectedUris(response_data), parse_result.data_urls)
        /\ DedupePreserve(parse_result.image_urls) = parse_result.image_urls
        /\ DedupePreserve(parse_result.data_urls) = parse_result.data_urls

\* The data list and the message text both hold UrlA, the data list first and
\* after UrlB: it is returned once, in second place.
C18_Witness ==
    /\ Parsed
    /\ response_data.data_is_list
    /\ DataUrlList(response_data.data) = <<UrlB, UrlA>>
    /\ UrlA \in Range(ContentUrlList(response_data))
    /\ parse_result.image_urls = <<UrlB, UrlA>>

\* The response data = [{url: U}, {b64_json: B}] without choices.
DataExample ==
    [EmptyResponse EXCEPT !.data_is_list = TRUE,
        !.data = <<[dict |-> TRUE, url |-> UrlA, b64_json |-> "None"],
                   [dict |-> TRUE, url |-> NoUrl, b64_json |-> "AAAA"]>>]

\* C19: every item of the data list with a valid URL contributes that URL to
\* the remote-URL list and every item with an inline payload a data URI built
\* from it to the inline list, in item order and ahead of anything extracted
\* from choices; data = [{url: U}, {b64_json: B}] yields
\* ([U], ["data:image/png;base64," + B]) and no error.
C19_DataListFirst ==
    (Parsed /\ response_data.is_dict /\ response_data.data_is_list) =>
        /\ IsPrefix(DedupePreserve(DataUrlList(response_data.data)),
                    parse_result.image_urls)
        /\ IsPrefix(DedupePreserve(DataUriList(response_data.data)),
                    parse_result.data_urls)
        /\ response_data = DataExample =>
              parse_result = [image_urls |-> <<UrlA>>,
                              data_urls |-> <<PngDataUrl("AAAA")>>,
                              error |-> "none"]

\* The references queried so far are the first ones of the message, in order.
QueriedInOrder ==
    /\ Len(fetch_log) <= Len(reply_ids)
    /\ \A i \in 1..Len(fetch_log) : fetch_log[i].reply_id = reply_ids[i]

\* The error reported by the last queried reference that reported one.
LastReported ==
    LET failed == {i \in 1..Len(fetch_log) : fetch_log[i].outcome # "images"}
    IN IF failed = {} THEN "no_image"
       ELSE fetch_log[CHOOSE i \in failed : \A k \in failed : k <= i].outcome

\* C20: for a message with several references and no image of its own, the
\* resolver queries the references in order and returns the images of the
\* first one that has any, without querying the later ones; when none has an
\* image it returns no image and the error of the last reference that reported
\* one, or the generic message when none did.
C20_FirstReferenceWithImage ==
    /\ QueriedInOrder
    /\ \A i \in 1..(Len(fetch_log) - 1) : fetch_log[i].outcome # "images"
    /\ (resolver_pc = "returned" /\ ~direct_images /\ reply_ids # << >>) =>
          LET k == Len(fetch_log)
          IN /\ k >= 1
             /\ IF fetch_log[k].outcome = "images"
                THEN resolve_result = [images |-> ReplyImages(reply_ids[k]),
                                       error |-> "None"]
                ELSE /\ k = Len(reply_ids)
                     /\ resolve_result = [images |-> NoImages, error |-> LastReported]

\* Three references: the first one failed, the second one has images, the
\* third one was not queried.
C20_Witness ==
    /\ resolver_pc = "returned"
    /\ ~direct_images
    /\ Len(reply_ids) = 3
    /\ Len(fetch_log) = 2
    /\ fetch_log[1].outcome = "fetch_failed"
    /\ resolve_result.images = ReplyImages(reply_ids[2])

\* C21: no exception escapes the asynchronous edit body: a failure inside it
\* is returned as an error value or caught by the catch-all, which sends the
\* user a failure message, and the edit task never ends with an exception.
C21_NoEscape == \A r \in Requests : pc[r] # "edit_raised"

\* The steps of a command in their order: the gate, the busy check and the
\* resolution, the status message, the API call with the materialization, the
\* delivery with the cleanup, the catch-all, the end.
StepRank(p) ==
    CASE p = "acquire" -> 1
      [] p = "critical" -> 2
      [] p = "resolve" -> 3
      [] p = "status_yield" -> 4
      [] p = "edit_core" -> 5
      [] p \in {"send_error", "send_empty", "deliver"} -> 6
      [] p = "catch" -> 7
      [] OTHER -> 8

\* A command that called the API was let through by the gate, was not
\* rejected as busy and had an image resolved; a command wrote files only
\* after its API call and only when the call gave images to deliver.
OrderKept ==
    \A r \in Requests :
       /\ r \in api_calls =>
             /\ gateResult[r] = NoDenial
             /\ msg[r] = "media"
             /\ pc[r] \notin {"done_denied", "done_busy", "done_noimage", "done_error"}
             /\ StepRank(pc[r]) > StepRank("edit_core")
       /\ r \in materialized =>
             /\ r \in api_calls
             /\ pc[r] \in {"deliver", "catch", "edit_returned", "edit_raised"}

\* A command only moves forward in the order of the steps; the API is called
\* by a command that is at the API step, and files are written in the step in
\* which the API call returns images.
OrderStep ==
    \A r \in Requests :
       /\ pc'[r] # pc[r] => StepRank(pc'[r]) > StepRank(pc[r])
       /\ (r \in api_calls' /\ r \notin api_calls) => pc[r] = "edit_core"
       /\ (r \in materialized' /\ r \notin materialized) =>
             (pc[r] = "edit_core" /\ pc'[r] = "deliver" /\ r \in api_calls')

\* C22: the steps of a request happen only in the order gate check, busy
\* check, image resolution, API call, materialization, delivery, cleanup: the
\* API is never called for a request the gate denied, that was rejected as
\* busy or that had no image resolved, and no file is written before the API
\* call has returned without error.
C22_StepOrder == []OrderKept /\ [][OrderStep]_vars

\* One command was denied by the rate limit, the other one went through every
\* step: it called the API, wrote files and its edit has returned.
C22_Witness ==
    \E r1, r2 \in Requests :
       /\ pc[r1] = "edit_returned"
       /\ r1 \in materialized
       /\ pc[r2] = "done_denied"
       /\ api_calls = {r1}

\* The count a check of g made now starts from: the stored count of the
\* current window, zero in a new window.
CountBefore(g) ==
    IF /\ g \in DOMAIN rate_limit_bucket
       /\ now - rate_limit_bucket[g].window_start < rate_limit_window_seconds
    THEN rate_limit_bucket[g].count
    ELSE 0

\* The stored count of g, zero without a bucket.
StoredCount(buckets, g) == IF g \in DOMAIN buckets THEN buckets[g].count ELSE 0

\* The count of a group is the number of checks the gate allowed in the
\* group's window, wherever those commands went afterwards.
CountsEveryAllowed ==
    \A g \in DOMAIN rate_limit_bucket :
       rate_limit_bucket[g].count =
          Cardinality(AllowedSince(g, rate_limit_bucket[g].window_start))

\* A check that is allowed adds one to its group's count, a check that the
\* rate limit denies leaves every bucket as it was, and no other step of a
\* command or of an edit changes a bucket.
CountStep ==
    /\ \A r \in Requests :
          CriticalStep(r) =>
             IF gateResult'[r] = NoDenial
             THEN StoredCount(rate_limit_bucket', group[r]) = CountBefore(group[r]) + 1
             ELSE rate_limit_bucket' = rate_limit_bucket
    /\ (\A r \in Requests : ~CriticalStep(r)) => rate_limit_bucket' = rate_limit_bucket

\* C23: the rate-limit count does not depend on what becomes of a request:
\* every request that passes the gate adds one to its scope's count even if
\* it is then rejected as busy or for lacking an image or its edit fails, and
\* the slot is never given back; a request that the rate limit denies does not
\* add to the count.
C23_CountIndependentOfOutcome == []CountsEveryAllowed /\ [][CountStep]_vars

\* A command of the group passed the gate and was rejected as busy while the
\* edit of a private command, which has failed since, was in flight: the
\* group's count is one.
C23_Witness ==
    \E r1, r2 \in Requests :
       /\ group[r1] = "g1"
       /\ pc[r1] = "done_busy"
       /\ group[r2] = NoGroup
       /\ pc[r2] = "edit_returned"
       /\ r2 \notin materialized
       /\ "g1" \in DOMAIN rate_limit_bucket
       /\ rate_limit_bucket["g1"].count = 1

\* The sources in their priority order.
SourceRank(source) ==
    CASE source = "base64" -> 1
      [] source = "url" -> 2
      [] source = "file" -> 3
      [] source = "path" -> 4

\* The sources of a segment that are present and give a data URI when used.
Yielding(data) ==
    {source \in {"base64", "url", "file", "path"} :
        \/ source = "base64" /\ data.base64 = "present"
        \/ source = "url" /\ data.url = "ok"
        \/ source = "file" /\ data.file \in {"base64", "ok"}
        \/ source = "path" /\ data.path = "ok"}

\* The sources of a segment that are present and whose download fails.
FailedDownloads(data) ==
    {source \in {"url", "file"} :
        \/ source = "url" /\ data.url = "download_fails"
        \/ source = "file" /\ data.file = "download_fails"}

FirstOf(sources) == CHOOSE s \in sources : \A t \in sources : SourceRank(s) <= SourceRank(t)

\* The segment has been converted.
SegmentConverted == convert_result.error # "pending"

\* C24 as stated: the result is the data URI of the first source, in the order
\* inline bytes, direct URL, file identifier, local path, that yields one; a
\* present source that fails does not keep a lower one from being used.
C24_FirstYieldingSource ==
    SegmentConverted =>
        IF Yielding(segment_data) = {} THEN convert_result.data_url = "None"
        ELSE convert_result = Converted(FirstOf(Yielding(segment_data)))

\* C24, amended: a returned data URI is the one of the first source in the
\* priority order that yields one; the sources below a present source whose
\* download fails (the direct URL, or the URL a file identifier resolved to)
\* are used only if a source above it yields: otherwise the conversion ends
\* with the download error. A file identifier that cannot be resolved, on its
\* own, keeps no lower source from being used.
C24_PriorityUntilFailedDownload ==
    SegmentConverted =>
        LET yielding == Yielding(segment_data)
            failed == FailedDownloads(segment_data)
            blocked == /\ failed # {}
                       /\ \A s \in yielding :
                             SourceRank(FirstOf(failed)) < SourceRank(s)
        IN IF blocked THEN convert_result = NotConverted("download_failed")
           ELSE IF yielding = {} THEN convert_result.data_url = "None"
           ELSE convert_result = Converted(FirstOf(yielding))

\* The file identifier could not be resolved and the local path was read.
C24_Witness ==
    /\ SegmentConverted
    /\ segment_data.base64 = "absent"
    /\ segment_data.url = "absent"
    /\ segment_data.file = "unresolved"
    /\ segment_data.path = "ok"
    /\ convert_result = Converted("path")

\* C25: no task token is left orphaned: a user who has a token recorded
\* eventually has none, also when the command handler fails or is abandoned
\* between recording the token and creating the edit task.
C25_NoOrphanToken ==
    \A u \in Users :
       (u \in DOMAIN processing_tasks) ~> (u \notin DOMAIN processing_tasks)

\* The edit of request r finishes in this step.
EditFinishes(r) == InFlight(r) /\ ~InFlight(r)'

\* C26: while an edit of a user is in flight, a token is recorded for the user
\* and it is the token of an edit of that user still in flight; an edit that
\* finishes removes no token but its own and leaves the user's token in place
\* while another edit of the same user is running.
C26_TokenOwnedByRunningEdit ==
    /\ [](\A r \in Requests :
            InFlight(r) =>
               /\ user[r] \in DOMAIN processing_tasks
               /\ \E q \in Requests : /\ InFlight(q)
                                      /\ user[q] = user[r]
                                      /\ processing_tasks[user[r]] = TaskId(q))
    /\ [][\A r \in Requests :
            EditFinishes(r) =>
               /\ \A u \in DOMAIN processing_tasks :
                     processing_tasks[u] # TaskId(r) =>
                        /\ u \in DOMAIN processing_tasks'
                        /\ processing_tasks'[u] = processing_tasks[u]
               /\ (\E q \in Requests \ {r} : InFlight(q) /\ user[q] = user[r])
                     => user[r] \in DOMAIN processing_tasks']_vars

\* The delivery has left _async_edit_image's try block: through the cleanup
\* loop, or through the catch-all handler.
EditFinished == deliver_pc \in {"done", "caught"}

\* C27: when the edit has finished on any exit path, none of its local files
\* remains in storage if the retain flag is off, and all of them remain if it
\* is on.
C27_NoFileLeftBehind ==
    EditFinished =>
        \A f \in Range(image_paths) :
            IF save_image_enabled THEN f \in storage ELSE f \notin storage

\* The request dispatched in this step, if it carries no scope: its group id
\* is missing or the lookup of it raised.
UnscopedDispatch ==
    /\ Len(pc') = Len(pc) + 1
    /\ group'[Len(pc')] = NoGroup

\* C28: a request without a scope is never denied by the gate and never waits
\* for a lock, and its dispatch creates or changes no rate-limit bucket and no
\* lock, under every access mode, allow list and rate-limit configuration.
C28_UnscopedNeverGated ==
    /\ [](/\ \A r \in Requests :
               group[r] = NoGroup =>
                  /\ gateResult[r] = NoDenial
                  /\ pc[r] \notin {"acquire", "critical", "done_denied"}
          /\ NoGroup \notin DOMAIN rate_limit_bucket
          /\ NoGroup \notin DOMAIN rate_limit_locks)
    /\ [][UnscopedDispatch =>
             /\ rate_limit_bucket' = rate_limit_bucket
             /\ rate_limit_locks' = rate_limit_locks]_vars

\* Under a whitelist that lists no group and with the rate limit enabled, a
\* private-chat request and one whose group id lookup raised both passed the
\* gate, and no bucket and no lock exists.
C28_Witness ==
    \E r1, r2 \in Requests :
       /\ group_control_mode = "whitelist"
       /\ group_list = {}
       /\ rate_limit_enabled
       /\ group[r1] = NoGroup /\ gateFault[r1] = "none"
       /\ group[r2] = NoGroup /\ gateFault[r2] = "group_id"
       /\ gateResult[r1] = NoDenial
       /\ gateResult[r2] = NoDenial
       /\ rate_limit_bucket = EmptyMap
       /\ rate_limit_locks = EmptyMap

====
